---- MODULE Spec2Model ----
(***************************************************************************)
(* Model of the steely decorators: scan (real-time variable tracking via   *)
(* sys.settrace), cronos (timing) and log (lifecycle logging), and of the  *)
(* pure helpers of ScanPrinter.                                            *)
(*                                                                         *)
(* Spec      decorated calls, sequential or properly nested, on one thread *)
(* SpecFmt   ScanPrinter._format_value applied to bounded texts and caps   *)
(* SpecType  ScanPrinter._get_type_name applied to bounded values          *)
(* SpecSig   the three decorators applied to bounded function signatures   *)
(***************************************************************************)
EXTENDS Integers, Sequences, FiniteSets, TLC

\* ------------------------------------------------------------------ bounds
MaxDepth == 2
MaxSteps == 2
MaxCalls == 2
MaxText == 3
MaxCap == 4
MaxSize == 6
MaxParams == 2
MaxLogs == 2
MaxDays == 2
MaxThreads == 2
MaxRecorders == 2
MaxRequests == 2
MaxTasks == 2

\* ------------------------------------------------------------------ values
\* A runtime value: its class and its content.  BadRepr is an instance of a
\* user class whose __repr__ raises.
IntV(n) == [cls |-> "int", val |-> n]
NoneV == [cls |-> "NoneType", val |-> 0]
BadRepr == [cls |-> "object", val |-> 0]
Unbound == [cls |-> "unbound", val |-> 0]
\* the instance a method is called on
ObjV == [cls |-> "Service", val |-> 0]

\* repr(value) raises for the hostile object only
ReprRaises(v) == v.cls = "object"

\* `old_val is not value` and `old_val != value` on the modelled values:
\* ints and singletons are identical exactly when they are equal.
IsNot(old, new) == old # new
NotEqual(old, new) == old # new

\* ------------------------------------------------------------------- names
\* Local names are character sequences, so that startswith is computed.
NameA == <<"a">>
NameB == <<"b">>
NameC == <<"c">>
NameT == <<"_", "t">>
NameSelf == <<"s", "e", "l", "f">>
Names == {NameSelf, NameA, NameB, NameC, NameT}
\* co_varnames order: f_locals lists bound names in this order
VarOrder == <<NameSelf, NameA, NameB, NameC, NameT>>

startswith(name, ch) == Len(name) > 0 /\ name[1] = ch

NoLocals == [n \in Names |-> Unbound]

\* ------------------------------------------------------- decorated functions
\* The functions that get decorated: parameter names and whether the
\* function is declared async.  "refresh" is an async method (its first
\* parameter is the receiver); it runs as a task of the event loop.
FuncNames == {"add", "fetch", "ping"}
FuncParams(f) == IF f = "add" THEN <<NameA, NameB>>
                 ELSE IF f = "fetch" THEN <<NameA>>
                 ELSE IF f = "refresh" THEN <<NameSelf, NameA>> ELSE <<>>
FuncAsync(f) == f # "add"
Decorators == {"scan", "cronos", "log"}

\* exceptions a body can raise: subclasses of Exception, and BaseException
\* subclasses that are not Exceptions
ExcKinds == {"ValueError", "KeyboardInterrupt"}
IsException(e) == e \in {"ValueError", "TypeError", "RuntimeError"}

NoOutcome == [kind |-> "none", val |-> Unbound, exc |-> "none"]
Returned(v) == [kind |-> "return", val |-> v, exc |-> "none"]
Raised(e) == [kind |-> "raise", val |-> Unbound, exc |-> e]

VARIABLES
  trace,     \* the thread's sys.settrace slot (NoTrace, ExtTrace or a tracker)
  stack,     \* the active decorated calls, outermost first
  last,      \* the decorated call that the latest step completed, if any
  nextId,    \* id of the next VariableTracker / call
  steps,     \* body statements executed so far
  arg,       \* SpecFmt, SpecType, SpecSig: the input of the helper
  res,       \* SpecFmt, SpecType, SpecSig: its result, once applied
  glob,      \* Logger._global_app_name
  loggers,   \* the Logger instances, in order of construction
  decorated, \* the functions decorated with log
  fs,        \* the log files: path -> the messages written, oldest first
  handles,   \* the file objects opened so far: the path and whether closed
  today,     \* the calendar day datetime.now() falls on
  nlog,      \* log calls started so far; numbers the messages
  emitted,   \* what the latest operation on a Logger emitted
  thr,       \* SpecThreads: each thread's position inside Logger.log
  disk,      \* the recorders' artifacts: path -> content
  diskOk,    \* whether the artifacts can be opened for writing
  recorders, \* the recorder objects built by the curl / postman decorators
  served,    \* the endpoint call the latest request ended in
  tasks,     \* SpecTasks: the scanned call of each task of the event loop
  running,   \* SpecTasks: the task that holds the thread, 0 for the loop
  slot0      \* SpecTasks: the settrace slot before any task started

callVars == <<trace, stack, last, nextId, steps>>
pureVars == <<arg, res>>
logVars == <<glob, loggers, decorated, fs, handles, today, nlog, emitted, thr>>
recVars == <<disk, diskOk, recorders, served>>
taskVars == <<tasks, running, slot0>>
vars == <<callVars, pureVars, logVars, recVars, taskVars>>

\* None where the code holds a name, a path or a date
NoName == "<None>"

\* No Logger has been constructed, no recorder has been built.
LoggerIdle ==
  /\ glob = NoName /\ loggers = <<>> /\ decorated = <<>>
  /\ fs = <<>> /\ handles = <<>> /\ today = 1 /\ nlog = 0
  /\ emitted = <<>> /\ thr = <<>>
RecorderIdle ==
  /\ disk = <<>> /\ diskOk = TRUE /\ recorders = <<>> /\ served = <<>>

\* ------------------------------------------------------- the settrace slot
\* sys.gettrace() / sys.settrace(): None, a trace function that was installed
\* before any scanned call (a debugger, coverage), or tracker.trace_calls of
\* the VariableTracker with the given id.
NoTrace == [kind |-> "none", id |-> 0]
ExtTrace == [kind |-> "ext", id |-> 0]
TrackerTrace(i) == [kind |-> "tracker", id |-> i]

\* No task has been created.
TasksIdle == tasks = <<>> /\ running = 0 /\ slot0 = NoTrace

\* ------------------------------------------------------------ call records
\* One decorated call: the wrapper's locals (old_trace, tracker), the
\* VariableTracker's fields (active, previous_locals, changes), the wrapped
\* function's frame (locals, line, f_trace, pc) and what the call printed
\* (bound, out).  asg, pre, intended, disarms, post, outcome and captured
\* (the locals copied by the latest trace_lines run) record the history of
\* the call for the properties below.
BlankCall ==
  [id |-> 0, func |-> "add", deco |-> "scan", pc |-> "none",
   old_trace |-> NoTrace, pre |-> NoTrace, armed |-> FALSE,
   active |-> FALSE, f_trace |-> FALSE,
   previous_locals |-> NoLocals, changes |-> <<>>, captured |-> NoLocals,
   locals |-> NoLocals, line |-> 0, asg |-> <<>>,
   bound |-> <<>>, out |-> <<>>,
   body |-> NoOutcome, intended |-> NoOutcome,
   disarms |-> 0, post |-> NoTrace, outcome |-> NoOutcome]

Top == stack[Len(stack)]
SetTop(rec) == [stack EXCEPT ![Len(stack)] = rec]
Pop == SubSeq(stack, 1, Len(stack) - 1)

\* ----------------------------------------------------------- ScanPrinter
\* One entry of a call's printed transcript: what was printed and, for a
\* binding event, the name it is about.
Out(tag) == [tag |-> tag, name |-> <<>>]
OutEvent(tag, name) == [tag |-> tag, name |-> name]

\* ScanPrinter._print_variable / new_variable: builds type name and
\* repr(value) before printing; raises when repr(value) raises.
new_variable_raises(value) == ReprRaises(value)
\* ScanPrinter.variable_change: formats the new and the old value.
variable_change_raises(old_value, new_value) ==
  ReprRaises(new_value) \/ ReprRaises(old_value)
\* ScanPrinter.return_value
return_value_raises(value) == ReprRaises(value)

\* ScanPrinter.signature: positional args are mapped to parameter names by
\* index, keyword args are laid over them; every bound argument is printed
\* in order.  Result: the arguments printed and whether printing raised.
bound_args(param_names, args, kwargs) ==
  [i \in 1..(Len(args) + Len(kwargs)) |->
     IF i <= Len(args) THEN [name |-> param_names[i], value |-> args[i]]
     ELSE kwargs[i - Len(args)]]

RECURSIVE PrintBound(_, _, _)
PrintBound(b, i, printed) ==
  IF i > Len(b) THEN [bound |-> printed, raised |-> FALSE]
  ELSE IF ReprRaises(b[i].value) THEN [bound |-> printed, raised |-> TRUE]
  ELSE PrintBound(b, i + 1, Append(printed, b[i]))

signature(param_names, args, kwargs) ==
  PrintBound(bound_args(param_names, args, kwargs), 1, <<>>)

\* -------------------------------------------------------- VariableTracker
NewEvent(name, value, line_no) ==
  [kind |-> "new", name |-> name, old |-> Unbound, value |-> value,
   line |-> line_no]
ChangeEvent(name, old_val, value, line_no) ==
  [kind |-> "change", name |-> name, old |-> old_val, value |-> value,
   line |-> line_no]

\* a variant that filters nothing
skipped_nothing(name) == FALSE

\* `if name.startswith('_'): continue`
skipped(name) == startswith(name, "_")

\* The loop of trace_lines over current_locals.items(), in f_locals order.
\* acc.changes is tracker.changes, acc.out the call's printed transcript,
\* acc.raised whether a ScanPrinter call raised (which ends the loop).
RECURSIVE TraceLoop(_, _, _, _, _)
TraceLoop(i, current_locals, previous_locals, line_no, acc) ==
  IF i > Len(VarOrder) \/ acc.raised THEN acc
  ELSE
    LET name == VarOrder[i]
        value == current_locals[name]
        old_val == previous_locals[name]
    IN
    IF value = Unbound
    THEN TraceLoop(i + 1, current_locals, previous_locals, line_no, acc)
    ELSE IF skipped(name)
    THEN TraceLoop(i + 1, current_locals, previous_locals, line_no, acc)
    ELSE IF old_val = Unbound
    THEN TraceLoop(i + 1, current_locals, previous_locals, line_no,
           [changes |-> Append(acc.changes, NewEvent(name, value, line_no)),
            out |-> IF new_variable_raises(value) THEN acc.out
                    ELSE Append(acc.out, OutEvent("new", name)),
            raised |-> new_variable_raises(value)])
    ELSE IF IsNot(old_val, value) /\ NotEqual(old_val, value)
    THEN TraceLoop(i + 1, current_locals, previous_locals, line_no,
           [changes |-> Append(acc.changes,
                               ChangeEvent(name, old_val, value, line_no)),
            out |-> IF variable_change_raises(old_val, value) THEN acc.out
                    ELSE Append(acc.out, OutEvent("changed", name)),
            raised |-> variable_change_raises(old_val, value)])
    ELSE TraceLoop(i + 1, current_locals, previous_locals, line_no, acc)

\* VariableTracker.trace_lines for a 'line' or 'return' event of the call's
\* own frame.  Result: the call record afterwards and whether it raised.
trace_lines(rec) ==
  IF ~rec.active THEN [rec |-> rec, raised |-> FALSE]
  ELSE
    LET r == TraceLoop(1, rec.locals, rec.previous_locals, rec.line,
                       [changes |-> rec.changes, out |-> rec.out,
                        raised |-> FALSE])
    IN [rec |-> [rec EXCEPT !.changes = r.changes, !.out = r.out,
                            !.captured = rec.locals,
                            !.previous_locals =
                               IF r.raised THEN @ ELSE rec.locals],
        raised |-> r.raised]

\* VariableTracker.trace_calls for a 'call' event of the frame of call
\* record rec, when the slot holds `slot`: only the tracker whose target
\* code is this frame's code, and only while active, resets its snapshot
\* and becomes the frame's local trace function.
trace_calls(rec, slot) ==
  IF slot.kind = "tracker" /\ slot.id = rec.id /\ rec.active
  THEN [rec EXCEPT !.previous_locals = NoLocals, !.f_trace = TRUE]
  ELSE rec

\* A 'line' or 'return' event delivered to the frame of rec: the frame's
\* local trace function runs, if it has one.
LocalEvent(rec) ==
  IF rec.f_trace THEN trace_lines(rec) ELSE [rec |-> rec, raised |-> FALSE]

\* An exception raised by a trace function: the interpreter unsets the
\* trace function (as sys.settrace(None)) and the exception propagates
\* from the traced frame.
TraceFailed(rec) ==
  [rec EXCEPT !.f_trace = FALSE, !.pc = "ret", !.body = Raised("RuntimeError")]

\* ------------------------------------------------------------ the wrappers
\* Entering the wrapped function's frame: func(*args, **kwargs).  When the
\* arguments do not bind (a required argument is missing) the call raises
\* TypeError before any frame exists; otherwise the interpreter delivers a
\* 'call' event for the new frame to the trace function in the slot.
InvokeFunc(rec, binds, locals0, slot) ==
  IF ~binds
  THEN [rec EXCEPT !.pc = "ret", !.body = Raised("TypeError"),
                   !.intended = Raised("TypeError")]
  ELSE trace_calls([rec EXCEPT !.pc = "body", !.locals = locals0, !.line = 1],
                   slot)

\* scan.sync_wrapper / scan.async_wrapper up to the call of func: start
\* time, header, parameters, tracker creation and arming.  The parameter
\* block is printed before the try block, so a failure there leaves the
\* wrapper at once.
scan_wrapper_enter(rec, args, kwargs, binds, locals0, slot) ==
  LET sig == signature(FuncParams(rec.func), args, kwargs) IN
  IF sig.raised
  THEN [rec |-> [rec EXCEPT !.out = <<Out("start"), Out("header")>>,
                            !.bound = sig.bound, !.pc = "done",
                            !.post = slot,
                            !.outcome = Raised("RuntimeError")],
        slot |-> slot]
  ELSE [rec |-> InvokeFunc(
                  [rec EXCEPT !.out = <<Out("start"), Out("header"),
                                       Out("parameters"), Out("arm")>>,
                              !.bound = sig.bound,
                              !.active = TRUE, !.armed = TRUE,
                              !.old_trace = slot, !.pre = slot],
                  binds, locals0, TrackerTrace(rec.id)),
        slot |-> TrackerTrace(rec.id)]

\* cronos wrappers up to the call of func: the start time is taken.
cronos_wrapper_enter(rec, args, kwargs, binds, locals0, slot) ==
  [rec |-> InvokeFunc([rec EXCEPT !.out = <<Out("start")>>], binds, locals0, slot),
   slot |-> slot]

\* log wrappers up to the call of func: the START message is logged.
log_wrapper_enter(rec, args, kwargs, binds, locals0, slot) ==
  [rec |-> InvokeFunc([rec EXCEPT !.out = <<Out("log:START")>>],
                      binds, locals0, slot),
   slot |-> slot]

wrapper_enter(rec, args, kwargs, binds, locals0, slot) ==
  IF rec.deco = "scan"
  THEN scan_wrapper_enter(rec, args, kwargs, binds, locals0, slot)
  ELSE IF rec.deco = "cronos"
  THEN cronos_wrapper_enter(rec, args, kwargs, binds, locals0, slot)
  ELSE log_wrapper_enter(rec, args, kwargs, binds, locals0, slot)

\* a variant that clears the slot instead of restoring it
scan_finally_cleartrace(rec) == NoTrace

\* The finally block of the scan wrappers: sys.settrace(old_trace).
scan_finally_settrace(rec) == rec.old_trace

\* a variant that renders the failure and swallows it
scan_except_swallow(rec, e) ==
  IF IsException(e)
  THEN [rec EXCEPT !.out = Append(@, Out("exception")),
                   !.outcome = Returned(NoneV)]
  ELSE [rec EXCEPT !.outcome = Raised(e)]

\* The except clause of the scan wrappers: `except Exception` renders the
\* failure and re-raises it; a BaseException that is not an Exception
\* passes the clause untouched.
scan_except(rec, e) ==
  IF IsException(e)
  THEN [rec EXCEPT !.out = Append(@, Out("exception")), !.outcome = Raised(e)]
  ELSE [rec EXCEPT !.outcome = Raised(e)]

\* scan wrappers from the return of func: the try body's return render,
\* the except clause, and the finally block (restore the slot, disarm,
\* footer).
scan_wrapper_exit(rec) ==
  LET tried ==
        IF rec.body.kind = "return"
        THEN IF return_value_raises(rec.body.val)
             THEN scan_except(rec, "RuntimeError")
             ELSE [rec EXCEPT !.out = Append(@, Out("return")),
                              !.outcome = Returned(rec.body.val)]
        ELSE scan_except(rec, rec.body.exc)
  IN [rec |-> [tried EXCEPT !.active = FALSE, !.disarms = @ + 1,
                            !.out = @ \o <<Out("disarm"), Out("footer")>>,
                            !.pc = "done",
                            !.post = scan_finally_settrace(rec)],
      slot |-> scan_finally_settrace(rec)]

\* a variant that logs the elapsed time only after a normal return
cronos_wrapper_exit_on_success(rec, slot) ==
  [rec |-> [rec EXCEPT !.out = IF rec.body.kind = "return"
                                THEN Append(@, Out("log:TEST-RESULT")) ELSE @,
                       !.pc = "done", !.post = slot,
                       !.outcome = rec.body],
   slot |-> slot]

\* cronos wrappers from the return of func: the finally block logs the
\* elapsed time; the result is returned, a failure propagates.
cronos_wrapper_exit(rec, slot) ==
  [rec |-> [rec EXCEPT !.out = Append(@, Out("log:TEST-RESULT")),
                       !.pc = "done", !.post = slot,
                       !.outcome = rec.body],
   slot |-> slot]

\* a variant whose sync wrapper re-raises like the async one
log_wrapper_exit_reraise(rec, slot) ==
  [rec |->
     IF rec.body.kind = "return"
     THEN [rec EXCEPT !.out = Append(@, Out("log:SUCCESS")), !.pc = "done",
                      !.post = slot, !.outcome = rec.body]
     ELSE IF IsException(rec.body.exc)
     THEN [rec EXCEPT !.out = Append(@, Out("log:ERROR")), !.pc = "done",
                      !.post = slot, !.outcome = rec.body]
     ELSE [rec EXCEPT !.pc = "done", !.post = slot, !.outcome = rec.body],
   slot |-> slot]

\* log wrappers from the return of func: SUCCESS and the result, or, for
\* an Exception, ERROR and then None (sync wrapper) or the re-raised
\* failure (async wrapper).
log_wrapper_exit(rec, slot) ==
  [rec |->
     IF rec.body.kind = "return"
     THEN [rec EXCEPT !.out = Append(@, Out("log:SUCCESS")), !.pc = "done",
                      !.post = slot, !.outcome = rec.body]
     ELSE IF IsException(rec.body.exc)
     THEN [rec EXCEPT !.out = Append(@, Out("log:ERROR")), !.pc = "done",
                      !.post = slot,
                      !.outcome = IF FuncAsync(rec.func) THEN rec.body
                                  ELSE Returned(NoneV)]
     ELSE [rec EXCEPT !.pc = "done", !.post = slot, !.outcome = rec.body],
   slot |-> slot]

wrapper_exit(rec, slot) ==
  IF rec.deco = "scan" THEN scan_wrapper_exit(rec)
  ELSE IF rec.deco = "cronos" THEN cronos_wrapper_exit(rec, slot)
  ELSE log_wrapper_exit(rec, slot)

\* ---------------------------------------------------------------- actions
Init ==
  /\ trace \in {NoTrace, ExtTrace}
  /\ stack = <<>>
  /\ last = BlankCall
  /\ nextId = 1
  /\ steps = 0
  /\ arg = 0 /\ res = 0
  /\ LoggerIdle /\ RecorderIdle /\ TasksIdle

\* The frame of rec moves to its next line: the 'line' event is delivered
\* before the statement on that line executes.
BeginStmt(rec) == LocalEvent([rec EXCEPT !.line = @ + 1])

\* The locals of a fresh frame of f whose parameters are bound to vals.
FrameLocals(f, vals) ==
  [n \in Names |->
     IF \E i \in 1..Len(FuncParams(f)) : FuncParams(f)[i] = n
     THEN vals[CHOOSE i \in 1..Len(FuncParams(f)) : FuncParams(f)[i] = n]
     ELSE Unbound]

\* A decorated function is called with `given` of its parameters supplied,
\* the first npos of them positionally: from the top level when no call is
\* active, otherwise by a statement of the running body (an async function
\* is awaited, so only an async body can call it).
Call(f, deco, vals, npos, given) ==
  /\ UNCHANGED <<pureVars, logVars, recVars, taskVars>>
  /\ last = BlankCall
  /\ nextId <= MaxCalls
  /\ Len(stack) < MaxDepth
  /\ \A i \in 1..Len(stack) : stack[i].func # f
  /\ LET params == FuncParams(f)
         args == SubSeq(vals, 1, npos)
         kwargs == [i \in 1..(given - npos) |->
                      [name |-> params[npos + i], value |-> vals[npos + i]]]
         rec0 == [BlankCall EXCEPT !.id = nextId, !.func = f, !.deco = deco]
         Enter(base, slot) ==
           LET w == wrapper_enter(rec0, args, kwargs, given = Len(params),
                                  FrameLocals(f, vals), slot)
           IN /\ trace' = w.slot
              /\ nextId' = nextId + 1
              /\ IF w.rec.pc = "done"
                 THEN stack' = base /\ last' = w.rec
                 ELSE stack' = Append(base, w.rec) /\ last' = BlankCall
     IN
     IF stack = <<>>
     THEN Enter(stack, trace) /\ UNCHANGED steps
     ELSE /\ Top.pc = "body"
          /\ steps < MaxSteps
          /\ FuncAsync(f) => FuncAsync(Top.func)
          /\ steps' = steps + 1
          /\ LET ev == BeginStmt(Top) IN
             IF ev.raised
             THEN /\ stack' = SetTop(TraceFailed(ev.rec))
                  /\ trace' = NoTrace
                  /\ last' = BlankCall
                  /\ UNCHANGED nextId
             ELSE Enter(SetTop(ev.rec), trace)

\* name = value
Assign(name, value) ==
  /\ UNCHANGED <<pureVars, logVars, recVars, taskVars>>
  /\ last = BlankCall
  /\ stack # <<>> /\ Top.pc = "body"
  /\ steps < MaxSteps
  /\ steps' = steps + 1
  /\ LET ev == BeginStmt(Top) IN
     IF ev.raised
     THEN /\ stack' = SetTop(TraceFailed(ev.rec))
          /\ trace' = NoTrace
     ELSE /\ stack' = SetTop([ev.rec EXCEPT
                 !.locals[name] = value,
                 !.asg = Append(@, [name |-> name, value |-> value,
                                    line |-> ev.rec.line])])
          /\ UNCHANGED trace
  /\ last' = BlankCall
  /\ UNCHANGED nextId

\* await of something that suspends: the coroutine and every coroutine
\* awaiting it yield, and each traced frame receives a 'return' event.
Await ==
  /\ UNCHANGED <<pureVars, logVars, recVars, taskVars>>
  /\ last = BlankCall
  /\ stack # <<>> /\ Top.pc = "body" /\ FuncAsync(Top.func)
  /\ steps < MaxSteps
  /\ steps' = steps + 1
  /\ LET ev == BeginStmt(Top) IN
     IF ev.raised
     THEN /\ stack' = SetTop(TraceFailed(ev.rec))
          /\ trace' = NoTrace
     ELSE /\ stack' = [i \in 1..Len(stack) |->
                         IF i = Len(stack)
                         THEN [LocalEvent(ev.rec).rec EXCEPT !.pc = "suspended"]
                         ELSE LocalEvent(stack[i]).rec]
          /\ UNCHANGED trace
  /\ last' = BlankCall
  /\ UNCHANGED nextId

\* The event loop resumes the suspended coroutines: each resumed frame
\* gets a 'call' event, delivered to the trace function in the slot.
Resumed == [i \in 1..Len(stack) |-> trace_calls(stack[i], trace)]

Resume ==
  /\ UNCHANGED <<pureVars, logVars, recVars, taskVars>>
  /\ last = BlankCall
  /\ stack # <<>> /\ Top.pc = "suspended"
  /\ stack' = [Resumed EXCEPT ![Len(stack)].pc = "body"]
  /\ last' = BlankCall
  /\ UNCHANGED <<trace, nextId, steps>>

\* The task is cancelled while suspended: CancelledError is thrown into the
\* innermost coroutine at its await, which leaves the frame ('exception'
\* and 'return' events).
Cancel ==
  /\ UNCHANGED <<pureVars, logVars, recVars, taskVars>>
  /\ last = BlankCall
  /\ stack # <<>> /\ Top.pc = "suspended"
  /\ LET ev == LocalEvent(Resumed[Len(stack)]) IN
     IF ev.raised
     THEN /\ stack' = [Resumed EXCEPT ![Len(stack)] = TraceFailed(ev.rec)]
          /\ trace' = NoTrace
     ELSE /\ stack' = [Resumed EXCEPT ![Len(stack)] =
                 [ev.rec EXCEPT !.pc = "ret",
                                !.body = Raised("CancelledError"),
                                !.intended = Raised("CancelledError")]]
          /\ UNCHANGED trace
  /\ last' = BlankCall
  /\ UNCHANGED <<nextId, steps>>

\* return value  (a 'line' event for the statement, then a 'return' event)
Return(value) ==
  /\ UNCHANGED <<pureVars, logVars, recVars, taskVars>>
  /\ last = BlankCall
  /\ stack # <<>> /\ Top.pc = "body"
  /\ LET ev == BeginStmt(Top)
         rv == LocalEvent(ev.rec)
     IN
     IF ev.raised \/ rv.raised
     THEN /\ stack' = SetTop([TraceFailed(IF ev.raised THEN ev.rec ELSE rv.rec)
                               EXCEPT !.intended = Returned(value)])
          /\ trace' = NoTrace
     ELSE /\ stack' = SetTop([rv.rec EXCEPT !.pc = "ret",
                                            !.body = Returned(value),
                                            !.intended = Returned(value)])
          /\ UNCHANGED trace
  /\ last' = BlankCall
  /\ UNCHANGED <<nextId, steps>>

\* The body ends after its last statement: a 'return' event on that
\* statement's line, and the call returns None.
ImplicitReturn ==
  /\ UNCHANGED <<pureVars, logVars, recVars, taskVars>>
  /\ last = BlankCall
  /\ stack # <<>> /\ Top.pc = "body" /\ Top.line > 1
  /\ LET rv == LocalEvent(Top) IN
     IF rv.raised
     THEN /\ stack' = SetTop([TraceFailed(rv.rec)
                               EXCEPT !.intended = Returned(NoneV)])
          /\ trace' = NoTrace
     ELSE /\ stack' = SetTop([rv.rec EXCEPT !.pc = "ret",
                                            !.body = Returned(NoneV),
                                            !.intended = Returned(NoneV)])
          /\ UNCHANGED trace
  /\ last' = BlankCall
  /\ UNCHANGED <<nextId, steps>>

\* raise e  ('line', 'exception' and 'return' events)
Raise(e) ==
  /\ UNCHANGED <<pureVars, logVars, recVars, taskVars>>
  /\ last = BlankCall
  /\ stack # <<>> /\ Top.pc = "body"
  /\ LET ev == BeginStmt(Top)
         rv == LocalEvent(ev.rec)
     IN
     IF ev.raised \/ rv.raised
     THEN /\ stack' = SetTop(TraceFailed(IF ev.raised THEN ev.rec ELSE rv.rec))
          /\ trace' = NoTrace
     ELSE /\ stack' = SetTop([rv.rec EXCEPT !.pc = "ret", !.body = Raised(e),
                                            !.intended = Raised(e)])
          /\ UNCHANGED trace
  /\ last' = BlankCall
  /\ UNCHANGED <<nextId, steps>>

\* The wrapped function has returned or raised: the rest of the wrapper
\* runs and the call leaves the stack.
Finish ==
  /\ UNCHANGED <<pureVars, logVars, recVars, taskVars>>
  /\ last = BlankCall
  /\ stack # <<>> /\ Top.pc = "ret"
  /\ LET w == wrapper_exit(Top, trace) IN
     /\ last' = w.rec
     /\ trace' = w.slot
     /\ stack' = Pop
  /\ UNCHANGED <<nextId, steps>>

\* The inputs explored: argument tuples per function, with the hostile
\* object in every parameter position; the names and values a body assigns;
\* the values a body returns.
FuncArgs(f) ==
  IF f = "add" THEN {<<IntV(2), IntV(3)>>, <<IntV(2), BadRepr>>,
                     <<BadRepr, IntV(3)>>}
  ELSE IF f = "fetch" THEN {<<IntV(2)>>, <<BadRepr>>} ELSE {<<>>}
AssignNames == {NameA, NameC, NameT}
AssignValues == {IntV(2), IntV(5), BadRepr}
ReturnValues == {IntV(5), BadRepr}

DoCall ==
  \E f \in FuncNames, deco \in Decorators :
    \E vals \in FuncArgs(f) :
      \E given \in 0..Len(FuncParams(f)) : \E npos \in 0..given :
        /\ given >= Len(FuncParams(f)) - 1
        /\ Call(f, deco, vals, npos, given)
\* every value is bound to the visible names, an int to the hidden one
DoAssign ==
  \E name \in AssignNames, value \in AssignValues :
    /\ name = NameT => value = IntV(5)
    /\ Assign(name, value)
DoReturn == \E value \in ReturnValues : Return(value)
DoRaise == \E e \in ExcKinds : Raise(e)

\* The caller takes the outcome of the call that has just completed.
Observe ==
  /\ UNCHANGED <<pureVars, logVars, recVars, taskVars>>
  /\ last # BlankCall
  /\ last' = BlankCall
  /\ UNCHANGED <<trace, stack, nextId, steps>>

Next ==
  \/ DoCall
  \/ DoAssign
  \/ Await
  \/ Resume
  \/ Cancel
  \/ DoReturn
  \/ ImplicitReturn
  \/ DoRaise
  \/ Finish
  \/ Observe

Spec == Init /\ [][Next]_vars

\* ======================================================== pure helpers
CallsIdle ==
  /\ trace = NoTrace /\ stack = <<>> /\ last = BlankCall
  /\ nextId = 1 /\ steps = 0

\* ------------------------------------------- ScanPrinter._format_value
\* Symbols.ELLIPSIS, the one-character glyph U+2026
ELLIPSIS == "ELLIPSIS"
Chars == {"x", ELLIPSIS}
Texts == UNION {[1..n -> Chars] : n \in 0..MaxText}

\* The values formatted: strings, objects whose __repr__ returns a given
\* text, and the object whose __repr__ raises.
StrV(text) == [cls |-> "str", val |-> text]
ReprV(text) == [cls |-> "custom", val |-> text]
FmtValues == {StrV(t) : t \in Texts} \cup {ReprV(t) : t \in Texts}
               \cup {[cls |-> "object", val |-> <<>>]}

\* repr(value): a string is quoted, a custom object answers its own text
py_repr(value) ==
  IF value.cls = "str" THEN <<"'">> \o value.val \o <<"'">> ELSE value.val

\* s[:k] with Python's slice semantics (a negative k counts from the end)
SliceTo(s, k) ==
  IF k >= 0 THEN SubSeq(s, 1, IF k < Len(s) THEN k ELSE Len(s))
  ELSE SubSeq(s, 1, IF Len(s) + k > 0 THEN Len(s) + k ELSE 0)

\* a variant that keeps max_len characters before the glyph
_format_value_keeps_cap(value, max_len) ==
  IF ReprRaises(value) THEN [done |-> TRUE, raised |-> TRUE, text |-> <<>>]
  ELSE LET repr_val == py_repr(value) IN
       [done |-> TRUE, raised |-> FALSE,
        text |-> IF Len(repr_val) > max_len
                 THEN SliceTo(repr_val, max_len) \o <<ELLIPSIS>>
                 ELSE repr_val]

_format_value(value, max_len) ==
  IF ReprRaises(value) THEN [done |-> TRUE, raised |-> TRUE, text |-> <<>>]
  ELSE LET repr_val == py_repr(value) IN
       [done |-> TRUE, raised |-> FALSE,
        text |-> IF Len(repr_val) > max_len
                 THEN SliceTo(repr_val, max_len - 1) \o <<ELLIPSIS>>
                 ELSE repr_val]

NotApplied == [done |-> FALSE, raised |-> FALSE, text |-> <<>>]

InitFmt ==
  /\ CallsIdle /\ LoggerIdle /\ RecorderIdle /\ TasksIdle
  /\ arg \in [value : FmtValues, max_len : (0 - 1)..MaxCap]
  /\ res = NotApplied

FormatValue ==
  /\ ~res.done
  /\ res' = _format_value(arg.value, arg.max_len)
  /\ UNCHANGED <<arg, callVars, logVars, recVars, taskVars>>

NextFmt == FormatValue
SpecFmt == InitFmt /\ [][NextFmt]_vars

\* ------------------------------------------- ScanPrinter._get_type_name
\* The values classified: instances of the built-in types, of two
\* subclasses of built-in containers, and of a plain user class; a sized
\* value carries its elements in val.
SizedTypes == {"str", "list", "tuple", "set", "frozenset", "dict",
               "defaultdict", "Point"}
UnsizedTypes == {"int", "float", "bool", "NoneType", "Plain"}
TypeValues ==
  {[cls |-> t, val |-> [i \in 1..n |-> i]] : t \in SizedTypes, n \in 0..MaxSize}
    \cup {[cls |-> t, val |-> <<>>] : t \in UnsizedTypes}

\* the classes a value is an instance of
Mro(cls) ==
  IF cls = "bool" THEN {"bool", "int"}
  ELSE IF cls = "defaultdict" THEN {"defaultdict", "dict"}
  ELSE IF cls = "Point" THEN {"Point", "tuple"}
  ELSE {cls}
isinstance(value, classes) == Mro(value.cls) \cap classes # {}
py_len(value) == Len(value.val)

\* a variant that labels every sized value with square brackets
_get_type_name_brackets(value) ==
  LET t == value.cls IN
  IF isinstance(value, {"list", "tuple", "set", "frozenset", "dict", "str"})
  THEN t \o "[" \o ToString(py_len(value)) \o "]"
  ELSE t

_get_type_name(value) ==
  LET t == value.cls IN
  IF isinstance(value, {"list", "tuple", "set", "frozenset"})
  THEN t \o "[" \o ToString(py_len(value)) \o "]"
  ELSE IF isinstance(value, {"dict"})
  THEN t \o "{" \o ToString(py_len(value)) \o "}"
  ELSE IF isinstance(value, {"str"})
  THEN t \o "[" \o ToString(py_len(value)) \o "]"
  ELSE t

NoLabel == [done |-> FALSE, label |-> ""]

InitType ==
  /\ CallsIdle /\ LoggerIdle /\ RecorderIdle /\ TasksIdle
  /\ arg \in TypeValues
  /\ res = NoLabel

GetTypeName ==
  /\ ~res.done
  /\ res' = [done |-> TRUE, label |-> _get_type_name(arg)]
  /\ UNCHANGED <<arg, callVars, logVars, recVars, taskVars>>

NextType == GetTypeName
SpecType == InitType /\ [][NextType]_vars

\* --------------------------------------------- the decorators as objects
\* A function object as the decorators see it: its __name__, its declared
\* parameters (name, default, annotation) and whether it is `async def`.
ParamNames == {"a", "b"}
Param == [name : ParamNames, default : {"none", "1"},
          annotation : {"none", "int"}]
ParamLists ==
  {p \in UNION {[1..n -> Param] : n \in 0..MaxParams} :
     \A i, j \in 1..Len(p) : i # j => p[i].name # p[j].name}
Functions ==
  [name : {"original_func", "my_function"}, params : ParamLists,
   is_async : BOOLEAN, has_signature : {FALSE}, signature : {<<>>},
   has_wrapped : {FALSE}, wrapped : {<<>>}]

\* the wrappers are declared as (*args, **kwargs)
VarArgs == <<[name |-> "*args", default |-> "none", annotation |-> "none"],
             [name |-> "**kwargs", default |-> "none", annotation |-> "none"]>>

\* inspect.signature: __signature__ if set, else the signature of
\* __wrapped__, else the declared parameters
inspect_signature(obj) ==
  IF obj.has_signature THEN obj.signature
  ELSE IF obj.has_wrapped THEN obj.wrapped
  ELSE obj.params

\* asyncio.iscoroutinefunction
iscoroutinefunction(obj) == obj.is_async

\* functools.wraps(func): copies __name__ and sets __wrapped__
wraps(wrapper, func) ==
  [wrapper EXCEPT !.name = func.name, !.has_wrapped = TRUE,
                  !.wrapped = inspect_signature(func)]

\* `async def async_wrapper(*args, **kwargs)` / `def sync_wrapper(...)`
WrapperDef(is_async) ==
  [name |-> IF is_async THEN "async_wrapper" ELSE "sync_wrapper",
   params |-> VarArgs, is_async |-> is_async,
   has_signature |-> FALSE, signature |-> <<>>,
   has_wrapped |-> FALSE, wrapped |-> <<>>]

\* a variant of scan without the async branch
scan_sync_only(func) ==
  [wraps(WrapperDef(FALSE), func)
     EXCEPT !.has_signature = TRUE, !.signature = inspect_signature(func)]

\* scan(func): the wrapper object that the decorator returns
scan(func) ==
  [wraps(WrapperDef(iscoroutinefunction(func)), func)
     EXCEPT !.has_signature = TRUE, !.signature = inspect_signature(func)]

\* cronos(func)
cronos(func) ==
  [wraps(WrapperDef(iscoroutinefunction(func)), func)
     EXCEPT !.has_signature = TRUE, !.signature = inspect_signature(func)]

\* log(func)
log(func) ==
  [wraps(WrapperDef(iscoroutinefunction(func)), func)
     EXCEPT !.has_signature = TRUE, !.signature = inspect_signature(func)]

Undecorated == [done |-> FALSE, deco |-> "none", wrapper |-> WrapperDef(FALSE)]

InitSig ==
  /\ CallsIdle /\ LoggerIdle /\ RecorderIdle /\ TasksIdle
  /\ arg \in Functions
  /\ res = Undecorated

Decorate(deco) ==
  /\ ~res.done
  /\ res' = [done |-> TRUE, deco |-> deco,
             wrapper |-> IF deco = "scan" THEN scan(arg)
                         ELSE IF deco = "cronos" THEN cronos(arg)
                         ELSE log(arg)]
  /\ UNCHANGED <<arg, callVars, logVars, recVars, taskVars>>

NextSig == \E deco \in Decorators : Decorate(deco)
SpecSig == InitSig /\ [][NextSig]_vars

\* ================================================================ Logger
\* str.upper() on the names used below
upper(s) ==
  CASE s = "core" -> "CORE" [] s = "api" -> "API" [] s = "shared" -> "SHARED"
    [] s = "jobs" -> "JOBS" [] s = "db" -> "DB" [] s = "web" -> "WEB"
    [] s = "sync_job" -> "SYNC_JOB" [] s = "info" -> "INFO"
    [] s = "start" -> "START" [] s = "success" -> "SUCCESS"
    [] s = "error" -> "ERROR"
    [] OTHER -> s

\* datetime.now(): the calendar days a run can fall on, in order
Day(i) ==
  IF i = 1 THEN [d |-> 31, m |-> 12, y |-> 2024]
  ELSE [d |-> i - 1, m |-> 1, y |-> 2025]
\* now.strftime('%d-%m-%Y')
Pad2(n) == IF n < 10 THEN "0" \o ToString(n) ELSE ToString(n)
strftime_dmy(date) ==
  Pad2(date.d) \o "-" \o Pad2(date.m) \o "-" \o ToString(date.y)

\* Logger.__init__ (clean is the class attribute False: only master_clean
\* is set from the argument)
Logger__init__(owner, app_name, destination, debug, clean) ==
  [owner |-> owner, owner_upper |-> upper(owner),
   app_name_upper |-> IF app_name = NoName THEN NoName ELSE upper(app_name),
   path |-> destination, debug |-> debug,
   environment |-> IF debug THEN "debug" ELSE NoName,
   clean |-> FALSE, master_clean |-> clean,
   cached_log_path |-> NoName, cached_log_date |-> NoName,
   log_file_handle |-> 0, base_dir |-> NoName]

\* Logger.set_app_name / Logger.set_global_app_name
set_app_name(lg, app_name) ==
  [lg EXCEPT !.app_name_upper =
     IF app_name # NoName THEN upper(app_name) ELSE NoName]
set_global_app_name(app_name) ==
  IF app_name # NoName THEN upper(app_name) ELSE NoName

\* Logger._get_log_path, first part: the cached path is returned when the
\* date has not changed.
cache_hit(lg, current_date) ==
  lg.cached_log_date = current_date /\ lg.cached_log_path # NoName
\* second part: the base directory is computed once, the path and the date
\* are cached
base_dir(lg) ==
  IF lg.base_dir # NoName THEN lg.base_dir
  ELSE IF lg.environment # NoName /\ lg.path # NoName
       THEN lg.path \o "_" \o lg.environment
       ELSE lg.path
store_log_path(lg, current_date) ==
  [lg EXCEPT !.base_dir = base_dir(lg),
             !.cached_log_path = base_dir(lg) \o "/" \o current_date \o ".log",
             !.cached_log_date = current_date]
\* third part: the handle of the previous date is closed and dropped
close_old_handle(lg, hs) ==
  IF lg.log_file_handle # 0
  THEN [lg |-> [lg EXCEPT !.log_file_handle = 0],
        hs |-> [hs EXCEPT ![lg.log_file_handle].closed = TRUE]]
  ELSE [lg |-> lg, hs |-> hs]
_get_log_path(lg, hs, current_date) ==
  IF cache_hit(lg, current_date)
  THEN [lg |-> lg, hs |-> hs, path |-> lg.cached_log_path]
  ELSE LET st == store_log_path(lg, current_date)
           cl == close_old_handle(st, hs)
       IN [lg |-> cl.lg, hs |-> cl.hs, path |-> st.cached_log_path]

\* a variant that opens the file in write mode
open_truncate(files, log_path) ==
  [p \in DOMAIN files \cup {log_path} |-> IF p = log_path THEN <<>> ELSE files[p]]

\* Logger.log, lines 411-415: the handle is opened in append mode when
\* there is none or it is closed; an existing file keeps its content.
open_append(files, log_path) ==
  IF log_path \in DOMAIN files THEN files ELSE files @@ (log_path :> <<>>)
open_handle(lg, hs, files, log_path) ==
  IF lg.log_file_handle = 0 \/ hs[lg.log_file_handle].closed
  THEN [lg |-> [lg EXCEPT !.log_file_handle = Len(hs) + 1],
        hs |-> Append(hs, [path |-> log_path, closed |-> FALSE]),
        files |-> open_append(files, log_path)]
  ELSE [lg |-> lg, hs |-> hs, files |-> files]
\* lines 417-422: write and flush; a write to a closed file raises
\* ValueError, which is swallowed.
write_handle(lg, hs, files, entry) ==
  IF lg.log_file_handle # 0 /\ ~hs[lg.log_file_handle].closed
  THEN [files EXCEPT ![hs[lg.log_file_handle].path] = Append(@, entry)]
  ELSE files

\* The Logger state one log call works on
World == [loggers |-> loggers, handles |-> handles, fs |-> fs, nlog |-> nlog]

\* a variant in which the global name beats the explicit argument
current_app_global_first(lg, app_name, global_app_name) ==
  IF global_app_name # NoName THEN global_app_name
  ELSE IF app_name # NoName THEN upper(app_name)
  ELSE lg.app_name_upper

\* Logger.log, lines 370-382: the app name of the message
current_app(lg, app_name, global_app_name) ==
  IF app_name # NoName THEN upper(app_name)
  ELSE IF global_app_name # NoName THEN global_app_name
  ELSE lg.app_name_upper

\* Logger.log, line 427: whether the message is printed
printed(supress, debug, self_debug) == ~supress \/ debug \/ self_debug

\* Logger.log as one call of the calling thread `by`: clear the screen when
\* self.clean is set, build the content, write it to the day's file when a
\* destination is set, print it, and arm the next clearing.  The result is
\* the new Logger state and what the call emitted.
Logger_log(w, i, c, by) ==
  LET lg0 == w.loggers[i]
      cleared == lg0.clean
      lg1 == IF lg0.clean /\ ~lg0.master_clean
             THEN [lg0 EXCEPT !.clean = FALSE] ELSE lg0
      current_date == strftime_dmy(Day(today))
      id == w.nlog + 1
      content == [id |-> id, app |-> current_app(lg1, c.app_name, glob),
                  owner |-> lg1.owner_upper, level |-> upper(c.level)]
      gp == _get_log_path(lg1, w.handles, current_date)
      op == open_handle(gp.lg, gp.hs, w.fs, gp.path)
      wr == write_handle(op.lg, op.hs, op.files, [id |-> id, by |-> by])
      lg2 == IF lg1.path # NoName THEN op.lg ELSE lg1
      shown == printed(c.supress, c.debug, c.self_debug)
      lg3 == IF shown /\ c.clean THEN [lg2 EXCEPT !.clean = TRUE] ELSE lg2
  IN [w |-> [loggers |-> [w.loggers EXCEPT ![i] = lg3],
             handles |-> IF lg1.path # NoName THEN op.hs ELSE w.handles,
             fs |-> IF lg1.path # NoName THEN wr ELSE w.fs,
             nlog |-> id],
      em |-> [logger |-> i, call |-> c, content |-> content, day |-> today,
              screen |-> (IF cleared THEN <<"clear">> ELSE <<>>)
                           \o (IF shown THEN <<"print">> ELSE <<>>)]]

\* The level methods (info, start, success, error, ...) pass level,
\* app_name, clean, supress and debug on; self_debug keeps its default.
LogCall(level, app_name, clean, supress, debug, self_debug) ==
  [via |-> "log", level |-> level, app_name |-> app_name, clean |-> clean,
   supress |-> supress, debug |-> debug, self_debug |-> self_debug]
level_method(name, app_name, clean, supress, debug) ==
  [LogCall(upper(name), app_name, clean, supress, debug, TRUE)
     EXCEPT !.via = name]

\* The log calls explored: the defaults, an explicit app name, the
\* supress / debug / self_debug combinations, and a clean request.
LogCalls ==
  {level_method("info", NoName, FALSE, FALSE, TRUE),
   level_method("info", "api", FALSE, FALSE, TRUE),
   level_method("info", NoName, FALSE, TRUE, FALSE),
   level_method("info", NoName, FALSE, TRUE, TRUE),
   level_method("info", NoName, TRUE, FALSE, TRUE),
   LogCall("INFO", NoName, FALSE, TRUE, FALSE, FALSE),
   LogCall("INFO", NoName, FALSE, FALSE, FALSE, FALSE),
   LogCall("INFO", NoName, TRUE, TRUE, FALSE, FALSE)}

\* log(func), lines 612-615: the module name and the decorator's own
\* Logger(func.__name__); global_then records Logger._global_app_name at
\* decoration time for the properties.
log_decorate(func_name, module_name) ==
  [module_name |-> module_name, logger |-> Len(loggers) + 1,
   global_then |-> glob]
\* the wrappers' messages: START, then SUCCESS or ERROR, each with
\* app_name=current_app_name evaluated when the wrapper runs
current_app_name(f) == IF glob # NoName THEN glob ELSE f.module_name
log_wrapper_messages(f, raises) ==
  LET name == current_app_name(f)
      st == Logger_log(World, f.logger,
                       level_method("start", name, FALSE, FALSE, TRUE), 0)
      en == Logger_log(st.w, f.logger,
                       level_method(IF raises THEN "error" ELSE "success",
                                    name, FALSE, FALSE, TRUE), 0)
  IN [w |-> en.w, em |-> <<st.em, en.em>>]

\* ------------------------------------------------ sequential Logger use
\* Two Loggers sharing a destination, as two modules of one application
\* construct them; no call has been made.
InitLog ==
  /\ CallsIdle /\ RecorderIdle /\ TasksIdle /\ arg = 0 /\ res = 0
  /\ glob = NoName /\ decorated = <<>>
  /\ \E app_name \in {NoName, "core"}, destination \in {NoName, "logs"},
        debug \in BOOLEAN, clean \in BOOLEAN :
       loggers = <<Logger__init__("db", app_name, destination, debug, clean),
                   Logger__init__("web", "api", destination, TRUE, FALSE)>>
  /\ fs = <<>> /\ handles = <<>> /\ today = 1 /\ nlog = 0
  /\ emitted = <<>> /\ thr = <<>>

\* Logger.set_global_app_name(name)
SetGlobalAppName(name) ==
  /\ glob' = set_global_app_name(name)
  /\ glob' # glob
  /\ emitted' = <<>>
  /\ UNCHANGED <<loggers, decorated, fs, handles, today, nlog, thr>>
  /\ UNCHANGED <<callVars, pureVars, recVars, taskVars>>

\* logger.set_app_name(name)
SetAppName(i, name) ==
  /\ loggers' = [loggers EXCEPT ![i] = set_app_name(@, name)]
  /\ loggers' # loggers
  /\ emitted' = <<>>
  /\ UNCHANGED <<glob, decorated, fs, handles, today, nlog, thr>>
  /\ UNCHANGED <<callVars, pureVars, recVars, taskVars>>

\* Midnight passes.
Tick ==
  /\ today < MaxDays
  /\ today' = today + 1
  /\ UNCHANGED <<glob, loggers, decorated, fs, handles, nlog, emitted, thr>>
  /\ UNCHANGED <<callVars, pureVars, recVars, taskVars>>

\* logger.log(...) or a level method, run to completion
Log(i, c) ==
  /\ nlog < MaxLogs
  /\ LET r == Logger_log(World, i, c, 0) IN
     /\ loggers' = r.w.loggers /\ handles' = r.w.handles
     /\ fs' = r.w.fs /\ nlog' = r.w.nlog
     /\ emitted' = <<r.em>>
  /\ UNCHANGED <<glob, decorated, today, thr>>
  /\ UNCHANGED <<callVars, pureVars, recVars, taskVars>>

\* @log on a function of module "jobs"
DecorateLog ==
  /\ decorated = <<>>
  /\ decorated' = <<log_decorate("sync_job", "jobs")>>
  /\ loggers' = Append(loggers,
                       Logger__init__("sync_job", NoName, NoName, TRUE, FALSE))
  /\ emitted' = <<>>
  /\ UNCHANGED <<glob, fs, handles, today, nlog, thr>>
  /\ UNCHANGED <<callVars, pureVars, recVars, taskVars>>

\* A call of the decorated function; its body returns or raises an
\* Exception.
CallDecorated(raises) ==
  /\ decorated # <<>> /\ nlog + 2 <= MaxLogs
  /\ LET r == log_wrapper_messages(decorated[1], raises) IN
     /\ loggers' = r.w.loggers /\ handles' = r.w.handles
     /\ fs' = r.w.fs /\ nlog' = r.w.nlog
     /\ emitted' = r.em
  /\ UNCHANGED <<glob, decorated, today, thr>>
  /\ UNCHANGED <<callVars, pureVars, recVars, taskVars>>

DoSetGlobalAppName == \E name \in {NoName, "shared"} : SetGlobalAppName(name)
DoSetAppName == \E name \in {NoName, "core"} : SetAppName(1, name)
DoLog == \E i \in 1..Len(loggers), c \in LogCalls : Log(i, c)
DoCallDecorated == \E raises \in BOOLEAN : CallDecorated(raises)

NextLog ==
  \/ DoSetGlobalAppName
  \/ DoSetAppName
  \/ Tick
  \/ DoLog
  \/ DecorateLog
  \/ DoCallDecorated

SpecLog == InitLog /\ [][NextLog]_vars

\* ------------------------------------------------ concurrent Logger use
\* Threads calling log on one Logger that has a destination.  Logger.log
\* takes no lock, so a thread switch can fall between any two of its
\* steps: the cache test and the cache update of _get_log_path, the closing
\* of the old handle, the opening of the new one, and the write.
Threads == 1..MaxThreads
IdleThread ==
  [pc |-> "idle", id |-> 0, current_date |-> NoName, log_path |-> NoName,
   mine |-> {}, returned |-> {}]

InitThreads ==
  /\ CallsIdle /\ RecorderIdle /\ TasksIdle /\ arg = 0 /\ res = 0
  /\ glob = NoName /\ decorated = <<>>
  /\ \E debug \in BOOLEAN :
       loggers = <<Logger__init__("db", "core", "logs", debug, FALSE)>>
  /\ fs = <<>> /\ handles = <<>> /\ today = 1 /\ nlog = 0
  /\ emitted = <<>>
  /\ thr = [t \in Threads |-> IdleThread]

\* lines 357-408: the thread reads the clock and builds the content
T_Begin(t) ==
  /\ thr[t].pc = "idle" /\ nlog < MaxLogs
  /\ nlog' = nlog + 1
  /\ thr' = [thr EXCEPT ![t].pc = "check", ![t].id = nlog + 1,
                        ![t].mine = @ \cup {nlog + 1},
                        ![t].current_date = strftime_dmy(Day(today))]
  /\ UNCHANGED <<glob, loggers, decorated, fs, handles, today, emitted>>
  /\ UNCHANGED <<callVars, pureVars, recVars, taskVars>>

\* _get_log_path, lines 271-272
T_Check(t) ==
  /\ thr[t].pc = "check"
  /\ thr' = IF cache_hit(loggers[1], thr[t].current_date)
            THEN [thr EXCEPT ![t].pc = "open",
                             ![t].log_path = loggers[1].cached_log_path]
            ELSE [thr EXCEPT ![t].pc = "store"]
  /\ UNCHANGED <<glob, loggers, decorated, fs, handles, today, nlog, emitted>>
  /\ UNCHANGED <<callVars, pureVars, recVars, taskVars>>

\* _get_log_path, lines 275-296
T_Store(t) ==
  /\ thr[t].pc = "store"
  /\ loggers' = [loggers EXCEPT ![1] = store_log_path(@, thr[t].current_date)]
  /\ thr' = [thr EXCEPT ![t].pc = "close",
                        ![t].log_path = loggers'[1].cached_log_path]
  /\ UNCHANGED <<glob, decorated, fs, handles, today, nlog, emitted>>
  /\ UNCHANGED <<callVars, pureVars, recVars, taskVars>>

\* _get_log_path, lines 299-306
T_Close(t) ==
  /\ thr[t].pc = "close"
  /\ LET cl == close_old_handle(loggers[1], handles) IN
     /\ loggers' = [loggers EXCEPT ![1] = cl.lg]
     /\ handles' = cl.hs
  /\ thr' = [thr EXCEPT ![t].pc = "open"]
  /\ UNCHANGED <<glob, decorated, fs, today, nlog, emitted>>
  /\ UNCHANGED <<callVars, pureVars, recVars, taskVars>>

\* log, lines 411-415
T_Open(t) ==
  /\ thr[t].pc = "open"
  /\ LET op == open_handle(loggers[1], handles, fs, thr[t].log_path) IN
     /\ loggers' = [loggers EXCEPT ![1] = op.lg]
     /\ handles' = op.hs
     /\ fs' = op.files
  /\ thr' = [thr EXCEPT ![t].pc = "write"]
  /\ UNCHANGED <<glob, decorated, today, nlog, emitted>>
  /\ UNCHANGED <<callVars, pureVars, recVars, taskVars>>

\* log, lines 417-422
T_Write(t) ==
  /\ thr[t].pc = "write"
  /\ fs' = write_handle(loggers[1], handles, fs, [id |-> thr[t].id, by |-> t])
  /\ thr' = [thr EXCEPT ![t].pc = "print"]
  /\ UNCHANGED <<glob, loggers, decorated, handles, today, nlog, emitted>>
  /\ UNCHANGED <<callVars, pureVars, recVars, taskVars>>

\* log, lines 425-432: the thread prints the message and returns
T_Return(t) ==
  /\ thr[t].pc = "print"
  /\ thr' = [thr EXCEPT ![t].pc = "idle", ![t].returned = @ \cup {thr[t].id}]
  /\ UNCHANGED <<glob, loggers, decorated, fs, handles, today, nlog, emitted>>
  /\ UNCHANGED <<callVars, pureVars, recVars, taskVars>>

NextThreads ==
  \/ Tick
  \/ \E t \in Threads : T_Begin(t)
  \/ \E t \in Threads : T_Check(t)
  \/ \E t \in Threads : T_Store(t)
  \/ \E t \in Threads : T_Close(t)
  \/ \E t \in Threads : T_Open(t)
  \/ \E t \in Threads : T_Write(t)
  \/ \E t \in Threads : T_Return(t)

SpecThreads == InitThreads /\ [][NextThreads]_vars

\* ============================================== fastapi recorders
\* An artifact holds a header line (curl scripts) and one entry per recorded
\* request: the '<method> <path>' name, the number of the request it came
\* from, and the response examples.
Entry(name, n) == [name |-> name, n |-> n, response |-> <<>>]
ScriptHeader == Entry("#!/bin/bash", 0)
Requests == {[method |-> "GET", path |-> "/items"],
             [method |-> "POST", path |-> "/items"]}
ItemName(req) == req.method \o " " \o req.path
HasEntry(files, path, name, n) ==
  /\ path \in DOMAIN files
  /\ \E i \in 1..Len(files[path]) :
       files[path][i].name = name /\ files[path][i].n = n
\* A collection file that exists before any recorder is constructed and that
\* holds a response example for its item (saved from the Postman application).
ExistingCollection ==
  [p \in {"postman/api.json"} |->
     <<[Entry("GET /items", 0) EXCEPT !.response = <<"200 OK">>]>>]

\* CurlRecorder.__init__: the script is initialised (opened in 'w' mode and
\* given its header) when group_mode is off or the file does not exist.
CurlRecorder__init__(script_name, group_mode, files) ==
  LET script_path == "curl/" \o script_name \o ".sh" IN
  [rec |-> [kind |-> "curl", path |-> script_path, group_mode |-> group_mode,
            collection |-> <<>>],
   files |-> IF ~group_mode \/ script_path \notin DOMAIN files
             THEN [p \in DOMAIN files \cup {script_path} |->
                     IF p = script_path THEN <<ScriptHeader>> ELSE files[p]]
             ELSE files]

\* PostmanRecorder.__init__: an existing collection file is loaded,
\* otherwise the collection starts empty; nothing is written.
PostmanRecorder__init__(collection_name, files) ==
  LET collection_path == "postman/" \o collection_name \o ".json" IN
  [rec |-> [kind |-> "postman", path |-> collection_path, group_mode |-> TRUE,
            collection |-> IF collection_path \in DOMAIN files
                           THEN files[collection_path] ELSE <<>>],
   files |-> files]

\* CurlRecorder.record_request: the command is appended to the script; a
\* failing open() raises OSError out of record_request.
curl_record_request(rec, req, n, files, ok) ==
  IF ok
  THEN [rec |-> rec, raised |-> FALSE,
        files |-> [p \in DOMAIN files \cup {rec.path} |->
                     IF p = rec.path
                     THEN (IF p \in DOMAIN files THEN files[p] ELSE <<>>)
                            \o <<Entry(ItemName(req), n)>>
                     ELSE files[p]]]
  ELSE [rec |-> rec, raised |-> TRUE, files |-> files]

\* PostmanRecorder.record_request: the item replaces the item of the same
\* name or is appended to the in-memory collection, then _save_collection
\* rewrites the file from it; a failing open() raises OSError.
existing_index_none(collection, name) == 0
existing_index(collection, name) ==
  IF \E i \in 1..Len(collection) : collection[i].name = name
  THEN CHOOSE i \in 1..Len(collection) :
         /\ collection[i].name = name
         /\ \A j \in 1..(i - 1) : collection[j].name # name
  ELSE 0
postman_record_request(rec, req, n, files, ok) ==
  LET item == Entry(ItemName(req), n)
      idx == existing_index(rec.collection, item.name)
      coll == IF idx # 0
              THEN [rec.collection EXCEPT ![idx] =
                      [item EXCEPT !.response = @ \o rec.collection[idx].response]]
              ELSE Append(rec.collection, item)
      rec2 == [rec EXCEPT !.collection = coll]
  IN IF ok
     THEN [rec |-> rec2, raised |-> FALSE,
           files |-> [p \in DOMAIN files \cup {rec.path} |->
                        IF p = rec.path THEN coll ELSE files[p]]]
     ELSE [rec |-> rec2, raised |-> TRUE, files |-> files]

record_request(rec, req, n, files, ok) ==
  IF rec.kind = "curl" THEN curl_record_request(rec, req, n, files, ok)
  ELSE postman_record_request(rec, req, n, files, ok)

\* The wrappers of curl and postman, sync and async alike: without a
\* Request object the endpoint just runs; with one, the request is recorded
\* first and the endpoint runs afterwards.  Nothing catches a failure of
\* record_request.
\* at_body is the file system the endpoint body finds when it starts.
NoRequest == [method |-> "", path |-> ""]
recorder_wrapper_record_after(rec, request, body, n, files, ok) ==
  IF request = NoRequest \/ body.kind # "return"
  THEN [rec |-> rec, files |-> files, at_body |-> files,
        persist_failed |-> FALSE, executed |-> TRUE, outcome |-> body]
  ELSE LET rr == record_request(rec, request, n, files, ok) IN
       [rec |-> rr.rec, files |-> rr.files, at_body |-> files,
        persist_failed |-> rr.raised, executed |-> TRUE,
        outcome |-> IF rr.raised THEN Raised("OSError") ELSE body]
recorder_wrapper(rec, request, body, n, files, ok) ==
  IF request = NoRequest
  THEN [rec |-> rec, files |-> files, at_body |-> files,
        persist_failed |-> FALSE, executed |-> TRUE, outcome |-> body]
  ELSE LET rr == record_request(rec, request, n, files, ok) IN
       IF rr.raised
       THEN [rec |-> rr.rec, files |-> rr.files, at_body |-> rr.files,
             persist_failed |-> TRUE, executed |-> FALSE,
             outcome |-> Raised("OSError")]
       ELSE [rec |-> rr.rec, files |-> rr.files, at_body |-> rr.files,
             persist_failed |-> FALSE, executed |-> TRUE, outcome |-> body]

NoServed ==
  [n |-> 0, recorder |-> 0, request |-> NoRequest, body |-> NoOutcome,
   persist_failed |-> FALSE, executed |-> FALSE, outcome |-> NoOutcome,
   seen |-> FALSE]

InitRec ==
  /\ CallsIdle /\ LoggerIdle /\ TasksIdle /\ arg = 0 /\ res = 0
  /\ (disk = <<>> \/ disk = ExistingCollection)
  /\ diskOk = TRUE /\ recorders = <<>> /\ served = NoServed

\* @recorder.curl(script_name="api", group_mode=...) on an endpoint; with an
\* unwritable output directory the decorator itself raises and no wrapper
\* exists.
DecorateCurl(group_mode) ==
  /\ diskOk /\ Len(recorders) < MaxRecorders
  /\ LET c == CurlRecorder__init__("api", group_mode, disk) IN
     /\ recorders' = Append(recorders, c.rec)
     /\ disk' = c.files
  /\ UNCHANGED <<diskOk, served>>
  /\ UNCHANGED <<callVars, pureVars, logVars, taskVars>>

\* @recorder.postman(collection_name="api") on an endpoint
DecoratePostman ==
  /\ diskOk /\ Len(recorders) < MaxRecorders
  /\ LET c == PostmanRecorder__init__("api", disk) IN
     /\ recorders' = Append(recorders, c.rec)
     /\ disk' = c.files
  /\ UNCHANGED <<diskOk, served>>
  /\ UNCHANGED <<callVars, pureVars, logVars, taskVars>>

\* The output directory becomes unwritable (read-only mount, full disk,
\* removed directory), or writable again.
DiskFails ==
  /\ diskOk /\ diskOk' = FALSE
  /\ UNCHANGED <<disk, recorders, served>>
  /\ UNCHANGED <<callVars, pureVars, logVars, taskVars>>
DiskRecovers ==
  /\ ~diskOk /\ diskOk' = TRUE
  /\ UNCHANGED <<disk, recorders, served>>
  /\ UNCHANGED <<callVars, pureVars, logVars, taskVars>>

\* A call of decorated endpoint r, with or without a Request object; its
\* body returns a response or raises.
Request(r, request, body) ==
  /\ served.n < MaxRequests
  /\ LET w == recorder_wrapper(recorders[r], request, body, served.n + 1,
                               disk, diskOk) IN
     /\ recorders' = [recorders EXCEPT ![r] = w.rec]
     /\ disk' = w.files
     /\ served' = [n |-> served.n + 1, recorder |-> r, request |-> request,
                   body |-> body, persist_failed |-> w.persist_failed,
                   executed |-> w.executed, outcome |-> w.outcome,
                   seen |-> HasEntry(w.at_body, recorders[r].path,
                                     ItemName(request), served.n + 1)]
  /\ UNCHANGED diskOk
  /\ UNCHANGED <<callVars, pureVars, logVars, taskVars>>

DoDecorateCurl == \E group_mode \in BOOLEAN : DecorateCurl(group_mode)
DoRequest ==
  \E r \in 1..Len(recorders), request \in Requests \cup {NoRequest},
     body \in {Returned(IntV(2)), Raised("ValueError")} :
    Request(r, request, body)

NextRec ==
  \/ DoDecorateCurl
  \/ DecoratePostman
  \/ DiskFails
  \/ DiskRecovers
  \/ DoRequest

SpecRec == InitRec /\ [][NextRec]_vars

\* ================================== scanned coroutines as event-loop tasks
\* Two scan-decorated coroutines run as tasks of one event loop, on one
\* thread: a task holds the thread from its start or resumption to its next
\* await or its end, and the settrace slot is shared by all of them.
TaskIds == 1..MaxTasks
TaskFuncs == {"fetch", "refresh"}
TaskArgs(f) == IF f = "fetch" THEN <<IntV(2)>> ELSE <<ObjV, IntV(2)>>

\* A 'line' or 'return' event of a frame: the interpreter delivers events
\* only while the thread has a trace function (the slot is not None), and
\* then to the frame's own local trace function.
TaskEvent(rec, slot) ==
  IF slot.kind # "none" THEN LocalEvent(rec).rec ELSE rec

InitTasks ==
  /\ trace \in {NoTrace, ExtTrace}
  /\ stack = <<>> /\ last = BlankCall /\ nextId = 1 /\ steps = 0
  /\ arg = 0 /\ res = 0
  /\ LoggerIdle /\ RecorderIdle
  /\ tasks = [t \in TaskIds |-> BlankCall]
  /\ running = 0
  /\ slot0 = trace

\* The loop starts task t: async_wrapper runs up to `await func(...)` and
\* the coroutine's frame is entered.
TaskStart(t, f) ==
  /\ running = 0 /\ tasks[t].pc = "none"
  /\ LET rec0 == [BlankCall EXCEPT !.id = t, !.func = f, !.deco = "scan"]
         w == scan_wrapper_enter(rec0, TaskArgs(f), <<>>, TRUE,
                                 FrameLocals(f, TaskArgs(f)), trace)
     IN /\ tasks' = [tasks EXCEPT ![t] = w.rec]
        /\ trace' = w.slot
  /\ running' = t
  /\ UNCHANGED <<stack, last, nextId, steps, slot0>>
  /\ UNCHANGED <<pureVars, logVars, recVars>>

\* name = value in the running task
TaskAssign(t, name, value) ==
  /\ running = t /\ tasks[t].pc = "body"
  /\ steps < MaxSteps /\ steps' = steps + 1
  /\ LET ev == TaskEvent([tasks[t] EXCEPT !.line = @ + 1], trace) IN
     tasks' = [tasks EXCEPT ![t] =
                 [ev EXCEPT !.locals[name] = value,
                            !.asg = Append(@, [name |-> name, value |-> value,
                                               line |-> ev.line])]]
  /\ UNCHANGED <<trace, running, stack, last, nextId, slot0>>
  /\ UNCHANGED <<pureVars, logVars, recVars>>

\* await of something that suspends: 'line' and 'return' events, then the
\* thread goes back to the loop with the slot as the task left it.
TaskAwait(t) ==
  /\ running = t /\ tasks[t].pc = "body"
  /\ steps < MaxSteps /\ steps' = steps + 1
  /\ LET ev == TaskEvent([tasks[t] EXCEPT !.line = @ + 1], trace) IN
     tasks' = [tasks EXCEPT ![t] =
                 [TaskEvent(ev, trace) EXCEPT !.pc = "suspended"]]
  /\ running' = 0
  /\ UNCHANGED <<trace, stack, last, nextId, slot0>>
  /\ UNCHANGED <<pureVars, logVars, recVars>>

\* The loop resumes task t: a 'call' event for its frame goes to the trace
\* function that is in the slot now.
TaskResume(t) ==
  /\ running = 0 /\ tasks[t].pc = "suspended"
  /\ tasks' = [tasks EXCEPT ![t] =
                 [trace_calls(tasks[t], trace) EXCEPT !.pc = "body"]]
  /\ running' = t
  /\ UNCHANGED <<trace, stack, last, nextId, steps, slot0>>
  /\ UNCHANGED <<pureVars, logVars, recVars>>

\* return value in the running task ('line' and 'return' events), then the
\* rest of async_wrapper: return render and the finally block.
TaskReturn(t, value) ==
  /\ running = t /\ tasks[t].pc = "body"
  /\ LET ev == TaskEvent([tasks[t] EXCEPT !.line = @ + 1], trace)
         rv == TaskEvent(ev, trace)
         w == scan_wrapper_exit([rv EXCEPT !.pc = "ret",
                                           !.body = Returned(value),
                                           !.intended = Returned(value)])
     IN /\ tasks' = [tasks EXCEPT ![t] = w.rec]
        /\ trace' = w.slot
  /\ running' = 0
  /\ UNCHANGED <<stack, last, nextId, steps, slot0>>
  /\ UNCHANGED <<pureVars, logVars, recVars>>

DoTaskStart == \E t \in TaskIds, f \in TaskFuncs : TaskStart(t, f)
DoTaskAssign ==
  \E t \in TaskIds, name \in {NameA, NameC}, value \in {IntV(2), IntV(5)} :
    TaskAssign(t, name, value)
DoTaskAwait == \E t \in TaskIds : TaskAwait(t)
DoTaskResume == \E t \in TaskIds : TaskResume(t)
DoTaskReturn == \E t \in TaskIds : TaskReturn(t, IntV(5))

NextTasks ==
  \/ DoTaskStart
  \/ DoTaskAssign
  \/ DoTaskAwait
  \/ DoTaskResume
  \/ DoTaskReturn

SpecTasks == InitTasks /\ [][NextTasks]_vars

\* ============================================================== properties
\* The calls a property speaks about: the completed call and those running.
Done(rec) == rec.pc = "done"
ScanDone == Done(last) /\ last.deco = "scan"

RECURSIVE CountTag(_, _)
CountTag(out, tag) ==
  IF out = <<>> THEN 0
  ELSE (IF Head(out).tag = tag THEN 1 ELSE 0) + CountTag(Tail(out), tag)

\* C1: a decorated call (scan, cronos or log; sync or async) whose wrapped
\* function returns v without raising returns exactly v.
C1_ReturnTransparency ==
  (Done(last) /\ last.intended.kind = "return")
    => last.outcome = Returned(last.intended.val)

\* C2: on every exit path of a scanned call that armed its tracker, the
\* tracker has been disarmed exactly once and the settrace slot holds the
\* value it held immediately before the call armed the tracker; a running
\* call has not been disarmed.
C2_TraceRestored ==
  /\ (ScanDone /\ last.armed) =>
       /\ last.disarms = 1 /\ ~last.active
       /\ last.post = last.pre /\ trace = last.pre
  /\ (ScanDone /\ ~last.armed) => last.disarms = 0
  /\ \A i \in 1..Len(stack) : stack[i].disarms = 0

\* C2 witness: a nested scanned call was cancelled and the slot went back to
\* the outer call's tracker.
C2_Witness ==
  /\ ScanDone /\ last.armed
  /\ last.outcome = Raised("CancelledError")
  /\ last.pre.kind = "tracker" /\ trace = last.pre

\* C3 as stated: whenever the wrapped function of a scanned call completes
\* abnormally, the exception render happens exactly once, the return render
\* does not happen, and the same failure reaches the caller.
C3_Original ==
  (ScanDone /\ last.body.kind = "raise") =>
     /\ CountTag(last.out, "exception") = 1
     /\ CountTag(last.out, "return") = 0
     /\ last.outcome = last.body

\* C3 amended: the exception render happens exactly once when the failure is
\* an Exception, and not at all when it is a BaseException that is not an
\* Exception (CancelledError, KeyboardInterrupt); in both cases the return
\* render does not happen and the same failure reaches the caller.
C3_Amended ==
  (ScanDone /\ last.body.kind = "raise") =>
     /\ CountTag(last.out, "exception")
          = (IF IsException(last.body.exc) THEN 1 ELSE 0)
     /\ CountTag(last.out, "return") = 0
     /\ last.outcome = last.body

\* C3 witness: an async scanned call whose body raised ValueError.
C3_Witness ==
  /\ ScanDone /\ FuncAsync(last.func)
  /\ last.body = Raised("ValueError")
  /\ CountTag(last.out, "exception") = 1
  /\ last.outcome = Raised("ValueError")

\* C4: a scanned call prints, in this order: start, header, parameters,
\* arming, the binding events, exactly one of the return render (iff the
\* body completed normally) and the exception render, disarming, footer.
IsEvents(out) ==
  \A i \in 1..Len(out) : out[i].tag \in {"new", "changed"}
C4_StepOrder ==
  ScanDone =>
    LET out == last.out
        n == Len(out)
    IN /\ n >= 7
       /\ SubSeq(out, 1, 4) = <<Out("start"), Out("header"),
                                Out("parameters"), Out("arm")>>
       /\ IsEvents(SubSeq(out, 5, n - 3))
       /\ out[n - 2] = (IF last.body.kind = "return" THEN Out("return")
                        ELSE Out("exception"))
       /\ SubSeq(out, n - 1, n) = <<Out("disarm"), Out("footer")>>

\* C5: every binding event about a name that the body assigned carries the
\* line of the assignment statement that produced the reported binding.
C5_EventLines ==
  ScanDone =>
    \A k \in 1..Len(last.changes) :
      LET e == last.changes[k] IN
      (\E j \in 1..Len(last.asg) : last.asg[j].name = e.name) =>
        \E j \in 1..Len(last.asg) :
          /\ last.asg[j].name = e.name
          /\ last.asg[j].value = e.value
          /\ last.asg[j].line = e.line

\* C6: scan-decorated add(a, b) with body `c = a + b; return c`, called as
\* add(2, 3): parameters a=2 and b=3, exactly one binding event, New c=5,
\* and the return render of 5.
AddScenario ==
  /\ ScanDone /\ last.func = "add"
  /\ last.bound = <<[name |-> NameA, value |-> IntV(2)],
                    [name |-> NameB, value |-> IntV(3)]>>
  /\ Len(last.asg) = 1
  /\ last.asg[1].name = NameC /\ last.asg[1].value = IntV(5)
  /\ last.intended = Returned(IntV(5))
C6_AddScenario ==
  AddScenario =>
    /\ Len(last.changes) = 1
    /\ last.changes[1].kind = "new"
    /\ last.changes[1].name = NameC
    /\ last.changes[1].value = IntV(5)
    /\ CountTag(last.out, "return") = 1
    /\ last.outcome = Returned(IntV(5))

\* C7: no binding event is recorded in tracker.changes or printed for a
\* local name that begins with an underscore.
NoUnderscoreEvents(rec) ==
  /\ \A k \in 1..Len(rec.changes) : ~startswith(rec.changes[k].name, "_")
  /\ \A k \in 1..Len(rec.out) : ~startswith(rec.out[k].name, "_")
C7_NoUnderscoreEvents ==
  /\ NoUnderscoreEvents(last)
  /\ \A i \in 1..Len(stack) : NoUnderscoreEvents(stack[i])

\* C7 witness: a traced step has seen an underscore local (it is part of
\* the tracker's previous snapshot) next to a reported one.
C7_Witness ==
  /\ ScanDone
  /\ last.previous_locals[NameT] # Unbound
  /\ last.previous_locals[NameC] # Unbound
  /\ Len(last.changes) > 0

\* C8 as stated: the display text is never longer than max_len; a textual
\* form longer than max_len yields a text ending with exactly one ellipsis
\* glyph, a form that is not longer is returned unchanged.
EndsWithOneEllipsis(t) ==
  /\ Len(t) >= 1 /\ t[Len(t)] = ELLIPSIS
  /\ Len(t) >= 2 => t[Len(t) - 1] # ELLIPSIS
BuiltinTypes == {"int", "float", "bool", "NoneType", "str", "list", "tuple",
                 "set", "dict"}
Sized(t, n) == t \o "[" \o ToString(n) \o "]"
DocumentedLabel(value, none_label) ==
  LET t == value.cls
      n == Len(value.val)
  IN IF t = "NoneType" THEN none_label
     ELSE IF t \in {"int", "float", "bool"} THEN t
     ELSE IF t = "dict" THEN "dict{" \o ToString(n) \o "}"
     ELSE Sized(t, n)
C9_Original ==
  (res.done /\ arg.cls \in BuiltinTypes) =>
     res.label = DocumentedLabel(arg, "none")

\* C9 amended: as stated for a value whose type is exactly a built-in type,
\* except that the label of None is 'NoneType'; frozenset is labelled like
\* set, and an instance of a subclass carries the subclass name with the
\* length suffix of the built-in type it derives from.
C9_Amended ==
  res.done =>
    /\ arg.cls \in BuiltinTypes => res.label = DocumentedLabel(arg, "NoneType")
    /\ arg.cls = "frozenset" => res.label = Sized("frozenset", Len(arg.val))
    /\ arg.cls = "Point" => res.label = Sized("Point", Len(arg.val))
    /\ arg.cls = "defaultdict" =>
         res.label = "defaultdict{" \o ToString(Len(arg.val)) \o "}"
    /\ arg.cls = "Plain" => res.label = "Plain"

\* C9 witness: a dict of two entries labelled dict{2}, and True labelled
\* bool, are among the values classified.
C9_Witness ==
  /\ res.done
  /\ \/ arg.cls = "dict" /\ Len(arg.val) = 2 /\ res.label = "dict{2}"
     \/ arg.cls = "bool" /\ res.label = "bool"

\* C10: the object returned by scan, cronos and log shows the original's
\* parameter list and __name__, and is an async function iff the original
\* is.
C10_SignaturePreserved ==
  res.done =>
    /\ inspect_signature(res.wrapper) = arg.params
    /\ res.wrapper.name = arg.name
    /\ iscoroutinefunction(res.wrapper) = arg.is_async

\* C10 witness: an async function of two parameters, one with a default and
\* an annotation, has been decorated with scan.
C10_Witness ==
  /\ res.done /\ res.deco = "scan" /\ arg.is_async
  /\ Len(arg.params) = 2
  /\ arg.params[2].default = "1" /\ arg.params[1].annotation = "int"
  /\ inspect_signature(res.wrapper) = arg.params

\* C11: a cronos-decorated call, sync or async, logs exactly one TEST-RESULT
\* 'Total Time Elapsed' message; it is the last thing the wrapper does, after
\* the wrapped function has returned or raised, also when it raised, and the
\* caller gets the function's own result or failure; a call whose function
\* is still running has logged none.
CronosDone == Done(last) /\ last.deco = "cronos"
LogDone == Done(last) /\ last.deco = "log"
C14_DecorationTimeName ==
  \A k \in 1..Len(emitted) :
    (decorated # <<>> /\ emitted[k].logger = decorated[1].logger) =>
       emitted[k].content.app =
         (IF decorated[1].global_then # NoName THEN decorated[1].global_then
          ELSE upper(decorated[1].module_name))

\* C15: a message logged with supress=True and debug=False is not printed;
\* a message logged with supress=False or debug=True is printed.
IsPrinted(e) == \E j \in 1..Len(e.screen) : e.screen[j] = "print"
C15_SupressSilences ==
  \A k \in 1..Len(emitted) :
    LET e == emitted[k] IN
    /\ (e.call.supress /\ ~e.call.debug) => ~IsPrinted(e)
    /\ (~e.call.supress \/ e.call.debug) => IsPrinted(e)

\* C16: every message of a Logger constructed with clean=True is preceded by
\* a clearing of the screen, the first message included.
C16_PersistentClean ==
  \A k \in 1..Len(emitted) :
    loggers[emitted[k].logger].master_clean =>
      (emitted[k].screen # <<>> /\ emitted[k].screen[1] = "clear")

\* C17: in every step no log file loses or changes earlier content, and
\* every message just logged through a Logger with a destination is in
\* exactly one file, once: the file DD-MM-YYYY.log of the day of the call,
\* in '<destination>_debug' when the Logger's debug is on and in
\* '<destination>' otherwise.
IsPrefix(old, new) ==
  Len(old) <= Len(new) /\ SubSeq(new, 1, Len(old)) = old
Occurrences(files, p, id) ==
  Cardinality({j \in 1..Len(files[p]) : files[p][j].id = id})
ExpectedName(day) ==
  IF day = 1 THEN "31-12-2024.log" ELSE IF day = 2 THEN "01-01-2025.log"
  ELSE IF day = 3 THEN "02-01-2025.log" ELSE strftime_dmy(Day(day)) \o ".log"
ExpectedPath(lg, day) ==
  (IF lg.debug THEN lg.path \o "_debug" ELSE lg.path) \o "/" \o ExpectedName(day)
Placed(files, lg, e) ==
  lg.path # NoName =>
    /\ ExpectedPath(lg, e.day) \in DOMAIN files
    /\ \A p \in DOMAIN files :
         Occurrences(files, p, e.content.id)
           = (IF p = ExpectedPath(lg, e.day) THEN 1 ELSE 0)
WrittenTimes(id) ==
  Cardinality({pj \in (DOMAIN fs) \X (1..MaxLogs) :
                 /\ pj[2] <= Len(fs[pj[1]])
                 /\ fs[pj[1]][pj[2]].id = id})
C18_ThreadSafe ==
  \A t \in DOMAIN thr : \A id \in thr[t].returned : WrittenTimes(id) = 1

\* C19: the write of a message is carried out by a background worker, not
\* by the thread that called log.
C19_BackgroundWorker ==
  \A p \in DOMAIN fs : \A j \in 1..Len(fs[p]) :
    \A t \in DOMAIN thr : fs[p][j].id \in thr[t].mine => fs[p][j].by # t

\* C20: when persisting the artifact fails while a request is recorded, the
\* failure is ignored: the endpoint body still runs and its own result
\* reaches the caller.
C20_PersistFailureIgnored ==
  (served.request # NoRequest /\ served.persist_failed) =>
     /\ served.executed
     /\ served.outcome = served.body

\* The step is a call of a decorated endpoint that carried a Request object.
Recorded == served' # served /\ served'.request # NoRequest
ServedPath == recorders'[served'.recorder].path
ServedName == ItemName(served'.request)

\* C21: for both recorders, when a request object is available, the
\* request's entry is in the artifact when the endpoint body starts, and it
\* is in the artifact after the call also when the body raised.
C21_RecordedBeforeBody ==
  [][(Recorded /\ served'.executed) =>
       /\ served'.seen
       /\ HasEntry(disk', ServedPath, ServedName, served'.n)]_vars

\* C21 witness: an endpoint body raised and the request's entry is in the
\* curl script; another call did the same with the Postman collection.
C21_Witness ==
  /\ served.request # NoRequest /\ served.executed
  /\ served.body = Raised("ValueError") /\ served.outcome = served.body
  /\ served.seen /\ served.n = 2
  /\ recorders[served.recorder].kind = "postman"
  /\ HasEntry(disk, recorders[served.recorder].path,
              ItemName(served.request), served.n)
  /\ HasEntry(disk, "curl/api.sh", "POST /items", 1)

\* C22: after a record_request on a PostmanRecorder its collection has no
\* two entries of the same '<method> <path>'; a pair already present is
\* replaced in place by the latest request and nothing is appended, a new
\* pair is appended, and the entries of other pairs are unchanged.
NoDuplicates(collection) ==
  \A i, j \in 1..Len(collection) :
    collection[i].name = collection[j].name => i = j
C22_Upsert ==
  [][(Recorded /\ recorders'[served'.recorder].kind = "postman") =>
       LET old == recorders[served'.recorder].collection
           new == recorders'[served'.recorder].collection
           present == \E i \in 1..Len(old) : old[i].name = ServedName
       IN /\ NoDuplicates(new)
          /\ Len(new) = (IF present THEN Len(old) ELSE Len(old) + 1)
          /\ \A i \in 1..Len(old) :
               IF old[i].name = ServedName
               THEN new[i].name = ServedName /\ new[i].n = served'.n
               ELSE new[i] = old[i]
          /\ ~present => (new[Len(new)].name = ServedName
                            /\ new[Len(new)].n = served'.n)]_vars

\* C22 witness: a collection of two pairs whose first entry was replaced in
\* place by the second request while the other entry stayed.
C22_Witness ==
  \E r \in 1..Len(recorders) :
    /\ recorders[r].kind = "postman" /\ served.recorder = r /\ served.n = 2
    /\ Len(recorders[r].collection) = 2
    /\ recorders[r].collection[1].n = 2
    /\ recorders[r].collection[2].n = 1

\* C23: recording a request through one of several endpoints that share a
\* collection name never removes an entry from the collection file: every
\* pair in the file stays in it and the number of entries never decreases.
C23_SharedCollectionKeepsEntries ==
  [][\A p \in DOMAIN disk :
       (Recorded /\ recorders'[served'.recorder].kind = "postman"
          /\ p = ServedPath) =>
         /\ Len(disk'[p]) >= Len(disk[p])
         /\ \A i \in 1..Len(disk[p]) : \E j \in 1..Len(disk'[p]) :
              disk'[p][j].name = disk[p][i].name]_vars

\* C24: every entry the Postman recorder writes for a request has an empty
\* response array, also when it replaces an entry and when the collection
\* was loaded from an existing file.
C24_EmptyResponses ==
  \A r \in 1..Len(recorders) :
    recorders[r].kind = "postman" =>
      \A i \in 1..Len(recorders[r].collection) :
        recorders[r].collection[i].n > 0 =>
          recorders[r].collection[i].response = <<>>

\* C25: with group_mode=False the script holds, after a recorded request,
\* the header and the command of that request only.
C25_ReplaceOnEachCall ==
  [][(Recorded /\ ~served'.persist_failed
        /\ recorders'[served'.recorder].kind = "curl"
        /\ ~recorders'[served'.recorder].group_mode) =>
       disk'[ServedPath] = <<ScriptHeader, Entry(ServedName, served'.n)>>]_vars

\* C26: a failure of the instrumentation (classifying, formatting or
\* comparing a value) never reaches the caller of a scanned call: the call
\* returns the function's result or raises the function's own exception.
C26_InstrumentationContained ==
  ScanDone => last.outcome = last.intended

\* The events the diff of two snapshots calls for, in f_locals order: New
\* for a name the previous snapshot lacks, Changed for a name whose value
\* differs, nothing otherwise.
Excluded(name) == startswith(name, "_") \/ name = NameSelf
Bare(e) == [kind |-> e.kind, name |-> e.name, old |-> e.old, value |-> e.value]
RECURSIVE ExpectedEvents(_, _, _)
ExpectedEvents(i, prev, cur) ==
  IF i > Len(VarOrder) THEN <<>>
  ELSE LET name == VarOrder[i] IN
       (IF cur[name] = Unbound \/ Excluded(name) THEN <<>>
        ELSE IF prev[name] = Unbound
        THEN <<Bare(NewEvent(name, cur[name], 0))>>
        ELSE IF prev[name] # cur[name]
        THEN <<Bare(ChangeEvent(name, prev[name], cur[name], 0))>>
        ELSE <<>>) \o ExpectedEvents(i + 1, prev, cur)
BareChanges(rec) == [k \in 1..Len(rec.changes) |-> Bare(rec.changes[k])]

\* C27: at each traced step of a scanned call the events emitted are those
\* of the diff between the locals captured at the immediately preceding
\* traced step and the current locals, and the current locals become the
\* tracker's previous snapshot; a step that finds the locals as they were
\* captured before (a rebinding to an equal value included) emits nothing.
C27_DiffRule ==
  [][\A i \in 1..Len(stack) :
       (i <= Len(stack') /\ stack'[i].id = stack[i].id) =>
         IF stack'[i].captured # stack[i].captured
         THEN /\ BareChanges(stack'[i]) =
                   BareChanges(stack[i]) \o
                     ExpectedEvents(1, stack[i].captured, stack'[i].captured)
              /\ stack'[i].previous_locals = stack'[i].captured
         ELSE stack'[i].changes = stack[i].changes]_vars

\* C30: within one scanned call a local name is reported as New at most
\* once (no name is deleted here), also when the call suspends at an await
\* and is resumed.
NewAtMostOnce(rec) ==
  \A j, k \in 1..Len(rec.changes) :
    (rec.changes[j].kind = "new" /\ rec.changes[k].kind = "new"
       /\ rec.changes[j].name = rec.changes[k].name) => j = k
C30_NewAtMostOnce ==
  /\ NewAtMostOnce(last)
  /\ \A i \in 1..Len(stack) : NewAtMostOnce(stack[i])

\* C28: no New or Changed event of a scanned method is about its implicit
\* receiver parameter.
C28_NoReceiverEvents ==
  \A t \in DOMAIN tasks : \A k \in 1..Len(tasks[t].changes) :
    tasks[t].changes[k].name # NameSelf

\* C29: once the two scanned tasks have completed, however they were
\* interleaved, the settrace slot holds the value it had before the first
\* of them started, and no disarmed tracker is installed in it.
C29_SlotRestoredAfterTasks ==
  (\A t \in DOMAIN tasks : tasks[t].pc = "done") =>
     /\ trace = slot0
     /\ trace.kind = "tracker" => tasks[trace.id].active

====
